---- MODULE Spec2Model ----
(***************************************************************************)
(* The webhook receiver of webhooks.py: index() handles one request.      *)
(* The handler is a straight-line program; every action below is one of   *)
(* its steps, and pc is the handler's position.                           *)
(*                                                                         *)
(* Strings that the code splits, joins or tests by suffix are sequences   *)
(* of tokens: a token is a separator character ("/", "-", "=") or a       *)
(* maximal run of other characters.  The empty string is <<>>.            *)
(***************************************************************************)
EXTENDS Integers, Sequences, FiniteSets, TLC

(***************************************************************************)
(* Bounds of the model.                                                    *)
(***************************************************************************)
\* most executable hook files present among the candidates
MaxHooks == 2
\* width of a network address in bits
AddrBits == 3

(***************************************************************************)
(* Python values.                                                          *)
(***************************************************************************)
\* None, where the other values are token strings
None == <<"#None">>

\* bool(x) of an optional string: None and "" are false
Truthy(x) == x # None /\ x # <<>>

\* str(x) of an optional string
Str(x) == IF x = None THEN <<"None">> ELSE x

\* s.split(sep, maxsplit); maxsplit = -1 is no limit
RECURSIVE Split(_, _, _)
Split(s, sep, maxsplit) ==
    IF maxsplit = 0 \/ ~ \E i \in 1..Len(s) : s[i] = sep
    THEN <<s>>
    ELSE LET i == CHOOSE k \in 1..Len(s) :
                      s[k] = sep /\ \A j \in 1..(k - 1) : s[j] # sep
         IN  <<SubSeq(s, 1, i - 1)>>
                 \o Split(SubSeq(s, i + 1, Len(s)), sep, maxsplit - 1)

\* s.endswith(suffix)
EndsWith(s, suffix) ==
    /\ Len(s) >= Len(suffix)
    /\ SubSeq(s, Len(s) - Len(suffix) + 1, Len(s)) = suffix

\* os.path.join(a, b)
Join(a, b) ==
    IF b # <<>> /\ b[1] = "/" THEN b
    ELSE IF a = <<>> \/ a[Len(a)] = "/" THEN a \o b
    ELSE a \o <<"/">> \o b

\* os.path.basename(p)
basename(p) == LET parts == Split(p, "/", -1) IN parts[Len(parts)]

\* the elements of a list
Range(q) == {q[k] : k \in DOMAIN q}

\* a dict with the one key k, or the empty dict
Dict(k, Vs) == {k :> v : v \in Vs}
Opt(k, Vs) == {<<>>} \cup Dict(k, Vs)

(***************************************************************************)
(* Responses.                                                              *)
(***************************************************************************)
\* flask.abort(code)
Abort(code) == [code |-> code, key |-> "abort", val |-> "", ran |-> <<>>]

\* an exception that leaves index(): the framework answers 500
Raise(exc) == [code |-> 500, key |-> "exception", val |-> exc, ran |-> <<>>]

\* return dumps({key: val})
Json(key, val) == [code |-> 200, key |-> key, val |-> val, ran |-> <<>>]

\* return dumps(ran, sort_keys=True, indent=4)
RanOutput(r) == [code |-> 200, key |-> "ran", val |-> "", ran |-> r]

NoResponse == [code |-> 0, key |-> "", val |-> "", ran |-> <<>>]

(***************************************************************************)
(* Origin filter: ipaddress.                                               *)
(***************************************************************************)
Pow2(n) == 2 ^ n

\* ip_address(...)
Address(version, bits) == [version |-> version, bits |-> bits]

\* an entry of the 'hooks' list of the meta document, CIDR notation
Cidr(version, base, prefixlen) ==
    [version |-> version, base |-> base, prefixlen |-> prefixlen]

\* src_ip in ip_network(valid_ip)
InNetwork(ip, net) ==
    /\ ip.version = net.version
    /\ ip.bits \div Pow2(AddrBits - net.prefixlen)
           = net.base \div Pow2(AddrBits - net.prefixlen)

\* Whitelisted, were only the first range of the list tried
WhitelistedByFirst(ip, list) == list # <<>> /\ InNetwork(ip, Head(list))

\* the for/else of the allow-list: TRUE when the loop breaks
RECURSIVE Whitelisted(_, _)
Whitelisted(ip, list) ==
    IF list = <<>> THEN FALSE
    ELSE IF InNetwork(ip, Head(list)) THEN TRUE
    ELSE Whitelisted(ip, Tail(list))

NoAddress == Address(0, 0)

\* the lowest address whose first bit is set, and whose second bit is set
Half == Pow2(AddrBits - 1)
Quarter == Pow2(AddrBits - 2)

\* request.access_route[0]: an address of the upper half, one of the first
\* quarter, and one of the other address family
SrcAddrs == {Address(4, Half + 1), Address(4, 1), Address(6, Half + 1)}

\* the ranges the meta document may list: the upper half of the address
\* space, and the second quarter
Ranges == {Cidr(4, Half, 1), Cidr(4, Quarter, 2)}

\* the lists of n ranges
RECURSIVE Lists(_, _)
Lists(S, n) ==
    IF n = 0 THEN {<<>>}
    ELSE {Append(q, x) : q \in Lists(S, n - 1), x \in S}

\* the 'hooks' lists of the meta document: distinct ranges, in any order
Whitelists ==
    {q \in UNION {Lists(Ranges, n) : n \in 0..Cardinality(Ranges)} :
        Cardinality(Range(q)) = Len(q)}

(***************************************************************************)
(* Signature verification: hmac.                                           *)
(***************************************************************************)
\* tokens of an X-Hub-Signature value
Chars(s) == [c |-> s]
EqSign == Chars("=")

\* hmac.new(key, msg, sha1).hexdigest(): one token, collision free
HexDigest(key, msg) == <<[hmac |-> <<key, msg>>]>>

\* request.headers.get('X-Hub-Signature') is None
NoSignature == <<[none |-> TRUE]>>

constant_time_compare(val1, val2) == val1 = val2

Secrets == {"", "k1"}

(***************************************************************************)
(* Requests.                                                               *)
(***************************************************************************)
Methods == {"GET", "POST"}

\* values of the X-GitHub-Event header; None is the absent header
EventHeaders ==
    {None, <<"ping">>, <<"push">>, <<"pull_request">>}

RefTypes == {<<"branch">>, <<"tag">>}

FullRef == <<"refs", "/", "heads", "/", "foo", "/", "bar">>

Refs == {<<>>, <<"main">>, <<"refs", "/", "heads", "/", "main">>, FullRef}

PullRequestHead == "head" :> ("ref" :> <<"dev">>)

PullRequests ==
    {PullRequestHead,
     ("base" :> <<>>) @@ PullRequestHead,
     ("base" :> ("ref" :> <<"main">>)) @@ PullRequestHead,
     "base" :> ("ref" :> <<"main">>)}

Repositories == {<<>>, "name" :> <<"repo1">>, "name" :> <<>>}

\* every JSON object over the keys index() reads
AllPayloads ==
    {a @@ b @@ c @@ d @@ e :
        a \in Opt("ref_type", RefTypes),
        b \in Opt("ref", Refs),
        c \in Opt("pull_request", PullRequests),
        d \in Opt("repository", Repositories),
        e \in Opt("deleted", BOOLEAN)}

Repo1 == "repository" :> ("name" :> <<"repo1">>)

\* the payloads of the requests that run the whole handler
Payloads ==
    {("ref" :> FullRef) @@ ("deleted" :> FALSE) @@ Repo1,
     ("ref" :> FullRef) @@ ("deleted" :> TRUE) @@ Repo1,
     ("ref" :> FullRef) @@ ("deleted" :> TRUE) @@ ("repository" :> <<>>),
     ("ref_type" :> <<"branch">>) @@ ("ref" :> <<"main">>) @@ Repo1,
     ("pull_request" :> (("base" :> ("ref" :> <<"main">>)) @@ PullRequestHead))
         @@ Repo1,
     ("ref" :> <<"main">>) @@ ("deleted" :> FALSE),
     <<>>}

\* refs/heads/{branch}
HeadRef(br) == <<"refs", "/", "heads", "/">> \o br

\* branch names that meet the names the resolver builds: a usual one, the
\* suffix word itself, one that ends in the suffix, and one whose last path
\* segment is a hook name
Branches ==
    {<<"main">>, <<"background">>, <<"fix", "-", "background">>,
     <<"foo", "/", "all">>}

\* the payloads of the requests that reach dispatch: pushes to each branch,
\* and a payload without ref and repository
DispatchPayloads ==
    {("ref" :> HeadRef(br)) @@ ("deleted" :> FALSE) @@ Repo1 : br \in Branches}
    \cup {"deleted" :> FALSE}

\* request.data: the text of a JSON object, or text that is not JSON
JsonBody(p) == [valid |-> TRUE, json |-> p]
InvalidBody == [valid |-> FALSE, json |-> <<>>]

Bodies == {InvalidBody} \cup {JsonBody(p) : p \in Payloads}

\* a body that differs from b
Tampered(b) == IF b = InvalidBody THEN JsonBody(<<>>) ELSE InvalidBody

\* values of the X-Hub-Signature header sent with body b
SigHeaders(b) ==
    {NoSignature,
     <<>>,
     <<Chars("sha1")>>,
     <<Chars("sha1"), EqSign>> \o HexDigest("k1", b),
     <<Chars("sha1"), EqSign>> \o HexDigest("k1", Tampered(b)),
     <<Chars("sha1"), EqSign>> \o HexDigest("k2", b),
     <<Chars("sha256"), EqSign>> \o HexDigest("k1", b),
     <<Chars("sha256"), EqSign>> \o HexDigest("k1", b) \o <<EqSign>>}

(***************************************************************************)
(* Configuration.                                                          *)
(***************************************************************************)
HooksPath == <<"hooks">>

\* the fallback of a missing config.json
DefaultConfig ==
    [github_ips_only |-> FALSE, enforce_secret |-> "",
     return_scripts_info |-> FALSE, hooks_path |-> <<"/", "missing">>]

Configs ==
    {DefaultConfig} \cup
    [github_ips_only : BOOLEAN, enforce_secret : Secrets,
     return_scripts_info : BOOLEAN, hooks_path : {HooksPath}]

(***************************************************************************)
(* State of one request.                                                   *)
(***************************************************************************)
VARIABLES
    pc,                \* position of index()
    method,            \* request.method
    body,              \* request.data
    config,            \* config
    src_ip,            \* src_ip
    whitelist,         \* whitelist
    fetched,           \* number of GETs of the meta document
    header_signature,  \* header_signature
    event,             \* event
    payload,           \* payload
    branch,            \* branch
    name,              \* name
    scripts,           \* scripts
    files,             \* the directory entries below hooks_path, by path
    tmpfile,           \* tmpfile
    tmpfiles,          \* the temporary files that exist, with their content
    created,           \* number of mkstemp() calls
    procs,             \* the processes spawned with Popen, in order
    ran,               \* ran
    i,                 \* position of the loop over scripts
    log,               \* the calls of logging, in order
    response           \* what the client receives

vars ==
    <<pc, method, body, config, src_ip, whitelist, fetched, header_signature,
      event, payload, branch, name, scripts, files, tmpfile, tmpfiles,
      created, procs, ran, i, log, response>>

request_vars == <<method, body>>
origin_vars == <<src_ip, whitelist, fetched>>
meta_vars == <<event, payload, branch, name>>
dispatch_vars ==
    <<scripts, files, tmpfile, tmpfiles, created, procs, ran, i>>

\* the locals of index() before hook resolution, but for config and event
Locals(cfg, ev) ==
    /\ config = cfg
    /\ src_ip = NoAddress
    /\ whitelist = <<>>
    /\ fetched = 0
    /\ header_signature = NoSignature
    /\ event = ev
    /\ payload = <<>>
    /\ branch = None
    /\ name = None
    /\ scripts = <<>>
    /\ files = <<>>
    /\ tmpfile = 0
    /\ tmpfiles = <<>>
    /\ created = 0
    /\ procs = <<>>
    /\ ran = <<>>
    /\ i = 0
    /\ log = <<>>
    /\ response = NoResponse

\* the locals of index() before their first assignment, but for event
Unset(ev) == Locals(DefaultConfig, ev)

Init ==
    /\ pc = "method"
    /\ method \in Methods
    /\ body \in Bodies
    /\ Unset(None)

\* the handler ends with the response r
Respond(r) == pc' = "done" /\ response' = r

\* logging.error, logging.warning, logging.info
Error(msg) == [level |-> "error", msg |-> msg]
Warning(msg) == [level |-> "warning", msg |-> msg]
Info(msg) == [level |-> "info", msg |-> msg]
Log(entries) == log' = log \o entries

\* the handler goes on at position p
Goto(p) == pc' = p /\ UNCHANGED response

(***************************************************************************)
(* Verification.                                                           *)
(***************************************************************************)
\* lines 61-63
CheckMethod ==
    /\ pc = "method"
    /\ IF method # "POST" THEN Respond(Abort(405)) ELSE Goto("config")
    /\ UNCHANGED <<request_vars, config, origin_vars, header_signature,
                   meta_vars, dispatch_vars, log>>

\* lines 65-78
LoadConfig ==
    /\ pc = "config"
    /\ \E c \in Configs : config' = c
    /\ Goto("origin")
    /\ UNCHANGED <<request_vars, origin_vars, header_signature, meta_vars,
                   dispatch_vars, log>>

\* lines 80-94; the GET of the meta document may fail
AllowGithubIps ==
    /\ pc = "origin"
    /\ IF config.github_ips_only
       THEN \E ip \in SrcAddrs :
              /\ src_ip' = ip
              /\ fetched' = fetched + 1
              /\ \/ /\ UNCHANGED <<whitelist, log>>
                    /\ Respond(Raise("RequestException"))
                 \/ \E list \in Whitelists :
                      /\ whitelist' = list
                      /\ IF Whitelisted(ip, list)
                         THEN Goto("secret") /\ UNCHANGED log
                         ELSE /\ Log(<<Error("IP not allowed")>>)
                              /\ Respond(Abort(403))
       ELSE /\ Goto("secret")
            /\ UNCHANGED <<origin_vars, log>>
    /\ UNCHANGED <<request_vars, config, header_signature, meta_vars,
                   dispatch_vars>>

\* lines 100-115: how the check of the header ends
CheckSignature(secret, header, data) ==
    IF header = NoSignature THEN "missing"
    ELSE LET parts == Split(header, EqSign, -1)
             sha_name == parts[1]
             signature == parts[2]
             mac == HexDigest(secret, data)
         IN  IF Len(parts) # 2 THEN "ValueError"
             ELSE IF sha_name # <<Chars("sha1")>> THEN "unsupported"
             ELSE IF ~ constant_time_compare(mac, signature) THEN "invalid"
             ELSE "ok"

\* lines 96-115
EnforceSecret ==
    /\ pc = "secret"
    /\ IF config.enforce_secret # ""
       THEN \E h \in SigHeaders(body) :
              /\ header_signature' = h
              /\ LET end == CheckSignature(config.enforce_secret, h, body)
                 IN  CASE end = "missing" ->
                            /\ Log(<<Warning("No signature found")>>)
                            /\ Respond(Abort(403))
                       [] end = "ValueError" ->
                            /\ UNCHANGED log
                            /\ Respond(Raise("ValueError"))
                       [] end = "unsupported" ->
                            /\ Log(<<Warning("Unsupported signature mech")>>)
                            /\ Respond(Abort(501))
                       [] end = "invalid" ->
                            /\ Log(<<Warning("Invalid digest comparison")>>)
                            /\ Respond(Abort(403))
                       [] end = "ok" ->
                            /\ UNCHANGED log
                            /\ Goto("ping")
       ELSE /\ Goto("ping")
            /\ UNCHANGED <<header_signature, log>>
    /\ UNCHANGED <<request_vars, config, origin_vars, meta_vars,
                   dispatch_vars>>

\* Ping, were the body parsed before the event is looked at
PingAfterGather ==
    /\ pc = "ping"
    /\ \E h \in EventHeaders :
         /\ event' = IF h = None THEN <<"ping">> ELSE h
         /\ payload' = body.json
         /\ IF event' = <<"ping">>
            THEN Respond(Json("msg", "pong"))
            ELSE Goto("gather")
    /\ UNCHANGED <<request_vars, config, origin_vars, header_signature,
                   branch, name, dispatch_vars, log>>

\* lines 117-120
Ping ==
    /\ pc = "ping"
    /\ \E h \in EventHeaders :
         /\ event' = IF h = None THEN <<"ping">> ELSE h
         /\ IF event' = <<"ping">>
            THEN Respond(Json("msg", "pong"))
            ELSE Goto("gather")
    /\ UNCHANGED <<request_vars, config, origin_vars, header_signature,
                   payload, branch, name, dispatch_vars, log>>

(***************************************************************************)
(* Metadata.                                                               *)
(***************************************************************************)
\* GatherData, were the payload file made before the body is parsed
GatherDataAfterMkstemp ==
    /\ pc = "gather"
    /\ created' = created + 1
    /\ tmpfile' = created'
    /\ tmpfiles' = (tmpfile' :> body) @@ tmpfiles
    /\ IF body.valid
       THEN /\ payload' = body.json
            /\ UNCHANGED log
            /\ Goto("branch")
       ELSE /\ UNCHANGED payload
            /\ Log(<<Warning("Request parsing failed")>>)
            /\ Respond(Abort(400))
    /\ UNCHANGED <<request_vars, config, origin_vars, header_signature,
                   event, branch, name, scripts, files, procs, ran, i>>

\* lines 122-127
GatherData ==
    /\ pc = "gather"
    /\ IF body.valid
       THEN /\ payload' = body.json
            /\ UNCHANGED log
            /\ Goto("branch")
       ELSE /\ UNCHANGED payload
            /\ Log(<<Warning("Request parsing failed")>>)
            /\ Respond(Abort(400))
    /\ UNCHANGED <<request_vars, config, origin_vars, header_signature,
                   event, branch, name, dispatch_vars>>

\* a lookup that raises KeyError or IndexError
KeyError == <<"#KeyError">>
IndexError == <<"#IndexError">>

\* BranchOrError, were pull_request looked at before ref_type
BranchPullRequestFirst(ev, p) ==
    IF "pull_request" \in DOMAIN p
    THEN IF "base" \notin DOMAIN p["pull_request"] THEN KeyError
         ELSE IF "ref" \notin DOMAIN p["pull_request"]["base"] THEN KeyError
         ELSE p["pull_request"]["base"]["ref"]
    ELSE IF "ref_type" \in DOMAIN p
    THEN IF p["ref_type"] = <<"branch">>
         THEN IF "ref" \in DOMAIN p THEN p["ref"] ELSE KeyError
         ELSE None
    ELSE IF ev \in {<<"push">>}
    THEN IF "ref" \notin DOMAIN p THEN KeyError
         ELSE LET parts == Split(p["ref"], "/", 2)
              IN  IF Len(parts) < 3 THEN IndexError ELSE parts[3]
    ELSE None

\* BranchOrError, were the ref of a push split at every slash
BranchBySplitAll(ev, p) ==
    IF "ref_type" \in DOMAIN p
    THEN IF p["ref_type"] = <<"branch">>
         THEN IF "ref" \in DOMAIN p THEN p["ref"] ELSE KeyError
         ELSE None
    ELSE IF "pull_request" \in DOMAIN p
    THEN IF "base" \notin DOMAIN p["pull_request"] THEN KeyError
         ELSE IF "ref" \notin DOMAIN p["pull_request"]["base"] THEN KeyError
         ELSE p["pull_request"]["base"]["ref"]
    ELSE IF ev \in {<<"push">>}
    THEN IF "ref" \notin DOMAIN p THEN KeyError
         ELSE LET parts == Split(p["ref"], "/", -1)
              IN  IF Len(parts) < 3 THEN IndexError ELSE parts[3]
    ELSE None

\* lines 135-148, before the except clause
BranchOrError(ev, p) ==
    IF "ref_type" \in DOMAIN p
    THEN IF p["ref_type"] = <<"branch">>
         THEN IF "ref" \in DOMAIN p THEN p["ref"] ELSE KeyError
         ELSE None
    ELSE IF "pull_request" \in DOMAIN p
    THEN IF "base" \notin DOMAIN p["pull_request"] THEN KeyError
         ELSE IF "ref" \notin DOMAIN p["pull_request"]["base"] THEN KeyError
         ELSE p["pull_request"]["base"]["ref"]
    ELSE IF ev \in {<<"push">>}
    THEN IF "ref" \notin DOMAIN p THEN KeyError
         ELSE LET parts == Split(p["ref"], "/", 2)
              IN  IF Len(parts) < 3 THEN IndexError ELSE parts[3]
    ELSE None

\* lines 129-153
DetermineBranch ==
    /\ pc = "branch"
    /\ LET b == BranchOrError(event, payload)
       IN  IF b = IndexError
           THEN UNCHANGED branch /\ Respond(Raise("IndexError"))
           ELSE /\ branch' = IF b = KeyError THEN None ELSE b
                /\ Goto("name")
    /\ UNCHANGED <<request_vars, config, origin_vars, header_signature,
                   event, payload, name, dispatch_vars, log>>

\* lines 155-164
DetermineName ==
    /\ pc = "name"
    /\ IF "repository" \notin DOMAIN payload
       THEN name' = None /\ Log(<<Info("Metadata")>>) /\ Goto("skip")
       ELSE IF "name" \in DOMAIN payload["repository"]
       THEN /\ name' = payload["repository"]["name"]
            /\ Log(<<Info("Metadata")>>)
            /\ Goto("skip")
       ELSE UNCHANGED <<name, log>> /\ Respond(Raise("KeyError"))
    /\ UNCHANGED <<request_vars, config, origin_vars, header_signature,
                   event, payload, branch, dispatch_vars>>

\* lines 166-169
SkipPushDelete ==
    /\ pc = "skip"
    /\ IF event # <<"push">> THEN Goto("hooks") /\ UNCHANGED log
       ELSE IF "deleted" \notin DOMAIN payload
       THEN Respond(Raise("KeyError")) /\ UNCHANGED log
       ELSE IF payload["deleted"]
       THEN /\ Log(<<Info("Skipping push-delete")>>)
            /\ Respond(Json("status", "skipped"))
       ELSE Goto("hooks") /\ UNCHANGED log
    /\ UNCHANGED <<request_vars, config, origin_vars, header_signature,
                   meta_vars, dispatch_vars>>

(***************************************************************************)
(* Hook resolution.                                                        *)
(***************************************************************************)
Dash == <<"-">>
Background == <<"-", "background">>

\* PossibleHooks, were the first tier guarded by the branch alone
PossibleHooksByBranch(hooks, ev, nm, br) ==
    (IF Truthy(br)
     THEN <<Join(hooks, ev \o Dash \o Str(nm) \o Dash \o br),
            Join(hooks, ev \o Dash \o Str(nm) \o Dash \o br \o Background)>>
     ELSE <<>>)
    \o
    (IF Truthy(nm)
     THEN <<Join(hooks, ev \o Dash \o nm),
            Join(hooks, ev \o Dash \o nm \o Background)>>
     ELSE <<>>)
    \o
    <<Join(hooks, ev),
      Join(hooks, ev \o Background),
      Join(hooks, <<"all">>),
      Join(hooks, <<"all">> \o Background)>>

\* lines 171-186: scripts before the permission check
PossibleHooks(hooks, ev, nm, br) ==
    (IF Truthy(br) /\ Truthy(nm)
     THEN <<Join(hooks, ev \o Dash \o nm \o Dash \o br),
            Join(hooks, ev \o Dash \o nm \o Dash \o br \o Background)>>
     ELSE <<>>)
    \o
    (IF Truthy(nm)
     THEN <<Join(hooks, ev \o Dash \o nm),
            Join(hooks, ev \o Dash \o nm \o Background)>>
     ELSE <<>>)
    \o
    <<Join(hooks, ev),
      Join(hooks, ev \o Background),
      Join(hooks, <<"all">>),
      Join(hooks, <<"all">> \o Background)>>

\* the 'Trying' lines among lines 171-186
Trying(nm, br) ==
    (IF Truthy(br) /\ Truthy(nm) THEN <<Info("Trying"), Info("Trying")>>
     ELSE <<>>)
    \o (IF Truthy(nm) THEN <<Info("Trying"), Info("Trying")>> ELSE <<>>)

\* lines 171-186
ListHooks ==
    /\ pc = "hooks"
    /\ scripts' = PossibleHooks(config.hooks_path, event, name, branch)
    /\ Log(Trying(name, branch))
    /\ Goto("permissions")
    /\ UNCHANGED <<request_vars, config, origin_vars, header_signature,
                   meta_vars, files, tmpfile, tmpfiles, created, procs, ran,
                   i>>

\* a directory entry: a regular file or not, executable by the process or not
Hook == [isfile |-> TRUE, x_ok |-> TRUE]
Unusable ==
    {[isfile |-> TRUE, x_ok |-> FALSE],
     [isfile |-> FALSE, x_ok |-> TRUE]}

\* the contents of the hooks directory: at most MaxHooks of the paths are
\* executable files; the others are all missing, or all the same unusable
\* entry (a file without the execute bit, a directory)
Directories(paths) ==
    LET Hooks == {Q \in SUBSET paths : Cardinality(Q) <= MaxHooks}
    IN  {[s \in Q |-> Hook] : Q \in Hooks}
        \cup {[s \in paths |-> IF s \in Q THEN Hook ELSE e] :
                 Q \in Hooks, e \in Unusable}

\* isfile(s) and access(s, X_OK)
Permitted(dir, s) == s \in DOMAIN dir /\ dir[s].isfile /\ dir[s].x_ok

\* [s for s in scripts if ...]
RECURSIVE Filter(_, _)
Filter(dir, list) ==
    IF list = <<>> THEN <<>>
    ELSE (IF Permitted(dir, Head(list)) THEN <<Head(list)>> ELSE <<>>)
             \o Filter(dir, Tail(list))

\* lines 188-191
CheckPermissions ==
    /\ pc = "permissions"
    /\ \E dir \in Directories(Range(scripts)) :
         /\ files' = dir
         /\ scripts' = Filter(dir, scripts)
         /\ IF scripts' = <<>>
            THEN Respond(Json("status", "nop"))
            ELSE Goto("tmpfile")
    /\ UNCHANGED <<request_vars, config, origin_vars, header_signature,
                   meta_vars, tmpfile, tmpfiles, created, procs, ran, i, log>>

(***************************************************************************)
(* Dispatch.                                                               *)
(***************************************************************************)
\* dumps(payload): the text that parses to the payload
Dumps(p) == JsonBody(p)

ExitCodes == {0, 1}

\* Argv, were name and branch passed as they are
ArgvRaw(s, tmp) == <<s, tmp, event, name, branch>>

\* [s, tmp, event, str(name), str(branch)]
Argv(s, tmp) == <<s, tmp, event, Str(name), Str(branch)>>

\* Popen(argv): a running child process
Popen(argv, bg) ==
    [argv |-> argv, background |-> bg, state |-> "running", returncode |-> 0]

\* lines 193-196, and the start of the loop of line 200
SavePayload ==
    /\ pc = "tmpfile"
    /\ created' = created + 1
    /\ tmpfile' = created'
    /\ tmpfiles' = (tmpfile' :> Dumps(payload)) @@ tmpfiles
    /\ i' = 1
    /\ Goto("run")
    /\ UNCHANGED <<request_vars, config, origin_vars, header_signature,
                   meta_vars, scripts, files, procs, ran, log>>

\* lines 202-217
LaunchBackground ==
    /\ pc = "run"
    /\ i <= Len(scripts)
    /\ EndsWith(scripts[i], Background)
    /\ created' = created + 1
    /\ tmpfiles' = (created' :> Dumps(payload)) @@ tmpfiles
    /\ procs' = Append(procs, Popen(Argv(scripts[i], created'), TRUE))
    /\ ran' = (basename(scripts[i]) :> [backgrounded |-> "yes"]) @@ ran
    /\ i' = i + 1
    /\ Goto("run")
    /\ UNCHANGED <<request_vars, config, origin_vars, header_signature,
                   meta_vars, scripts, files, tmpfile, log>>

\* SpawnHook, were the loop to go on without communicate()
SpawnHookNoWait ==
    /\ pc = "run"
    /\ i <= Len(scripts)
    /\ ~ EndsWith(scripts[i], Background)
    /\ procs' = Append(procs, Popen(Argv(scripts[i], tmpfile), FALSE))
    /\ i' = i + 1
    /\ Goto("run")
    /\ UNCHANGED <<request_vars, config, origin_vars, header_signature,
                   meta_vars, scripts, files, tmpfile, tmpfiles, created,
                   ran, log>>

\* lines 219-223
SpawnHook ==
    /\ pc = "run"
    /\ i <= Len(scripts)
    /\ ~ EndsWith(scripts[i], Background)
    /\ procs' = Append(procs, Popen(Argv(scripts[i], tmpfile), FALSE))
    /\ Goto("communicate")
    /\ UNCHANGED <<request_vars, config, origin_vars, header_signature,
                   meta_vars, scripts, files, tmpfile, tmpfiles, created,
                   ran, i, log>>

\* a hook process ends; the hooks are opaque, so this may never happen
HookExits ==
    /\ \E k \in DOMAIN procs, rc \in ExitCodes :
         /\ procs[k].state = "running"
         /\ procs' = [procs EXCEPT ![k].state = "exited",
                                   ![k].returncode = rc]
    /\ UNCHANGED <<pc, response, request_vars, config, origin_vars,
                   header_signature, meta_vars, scripts, files, tmpfile,
                   tmpfiles, created, ran, i, log>>

\* the bytes a hook wrote to a pipe: the UTF-8 encoding of a text, or bytes
\* that are no UTF-8 encoding
Utf8(text) == [utf8 |-> TRUE, text |-> text]
NotUtf8 == [utf8 |-> FALSE, text |-> ""]
Outputs == {Utf8("out"), NotUtf8}

\* bytes.decode('utf-8')
Decode(bytes) == IF bytes.utf8 THEN bytes.text ELSE "UnicodeDecodeError"

\* Communicate, were it to wait for every process of the request
CommunicateAll ==
    /\ pc = "communicate"
    /\ \A k \in DOMAIN procs : procs[k].state = "exited"
    /\ LET proc == procs[Len(procs)]
       IN  \E stdout \in Outputs, stderr \in Outputs :
                IF stdout.utf8 /\ stderr.utf8
                THEN /\ ran' = (basename(scripts[i]) :>
                                   [returncode |-> proc.returncode,
                                    stdout |-> Decode(stdout),
                                    stderr |-> Decode(stderr)]) @@ ran
                     /\ IF proc.returncode # 0
                        THEN Log(<<Error("hook failed")>>)
                        ELSE UNCHANGED log
                     /\ i' = i + 1
                     /\ Goto("run")
                ELSE /\ Respond(Raise("UnicodeDecodeError"))
                     /\ UNCHANGED <<ran, i, log>>
    /\ UNCHANGED <<request_vars, config, origin_vars, header_signature,
                   meta_vars, scripts, files, tmpfile, tmpfiles, created,
                   procs>>

\* lines 224-236: communicate() returns once the hook has exited, with what
\* the hook wrote
Communicate ==
    /\ pc = "communicate"
    /\ LET proc == procs[Len(procs)]
       IN  /\ proc.state = "exited"
           /\ \E stdout \in Outputs, stderr \in Outputs :
                IF stdout.utf8 /\ stderr.utf8
                THEN /\ ran' = (basename(scripts[i]) :>
                                   [returncode |-> proc.returncode,
                                    stdout |-> Decode(stdout),
                                    stderr |-> Decode(stderr)]) @@ ran
                     /\ IF proc.returncode # 0
                        THEN Log(<<Error("hook failed")>>)
                        ELSE UNCHANGED log
                     /\ i' = i + 1
                     /\ Goto("run")
                ELSE /\ Respond(Raise("UnicodeDecodeError"))
                     /\ UNCHANGED <<ran, i, log>>
    /\ UNCHANGED <<request_vars, config, origin_vars, header_signature,
                   meta_vars, scripts, files, tmpfile, tmpfiles, created,
                   procs>>

\* os.remove(path)
Remove(fs, path) == [f \in DOMAIN fs \ {path} |-> fs[f]]

\* lines 238-239
RemoveTmpfile ==
    /\ pc = "run"
    /\ i > Len(scripts)
    /\ tmpfiles' = Remove(tmpfiles, tmpfile)
    /\ Goto("return")
    /\ UNCHANGED <<request_vars, config, origin_vars, header_signature,
                   meta_vars, scripts, files, tmpfile, created, procs, ran,
                   i, log>>

\* lines 241-247
ReturnInfo ==
    /\ pc = "return"
    /\ IF ~ config.return_scripts_info
       THEN Respond(Json("status", "done")) /\ UNCHANGED log
       ELSE Respond(RanOutput(ran)) /\ Log(<<Info("output")>>)
    /\ UNCHANGED <<request_vars, config, origin_vars, header_signature,
                   meta_vars, dispatch_vars>>

(***************************************************************************)
(* Specifications.                                                         *)
(***************************************************************************)
Next ==
    \/ CheckMethod
    \/ LoadConfig
    \/ AllowGithubIps
    \/ EnforceSecret
    \/ Ping
    \/ GatherData
    \/ DetermineBranch
    \/ DetermineName
    \/ SkipPushDelete
    \/ ListHooks
    \/ CheckPermissions
    \/ SavePayload
    \/ LaunchBackground
    \/ SpawnHook
    \/ HookExits
    \/ Communicate
    \/ RemoveTmpfile
    \/ ReturnInfo

\* one request, from its arrival to its response
Spec == Init /\ [][Next]_vars

\* a request that passed the checks of the fallback configuration and is not
\* a ping, at line 122: every event and every payload
InitMeta ==
    /\ pc = "gather"
    /\ method = "POST"
    /\ body \in {InvalidBody} \cup {JsonBody(p) : p \in AllPayloads}
    /\ \E e \in EventHeaders \ {None, <<"ping">>} : Unset(e)

NextMeta ==
    \/ GatherData
    \/ DetermineBranch
    \/ DetermineName
    \/ SkipPushDelete
    \/ ListHooks

\* metadata extraction and hook resolution, as a function of event and payload
SpecMeta == InitMeta /\ [][NextMeta]_vars

\* a request that passed the checks and is not a ping, at line 122, under a
\* configuration that asks for no check
InitDispatch ==
    /\ pc = "gather"
    /\ method = "POST"
    /\ body \in {JsonBody(p) : p \in DispatchPayloads}
    /\ \E c \in Configs, e \in EventHeaders \ {None, <<"ping">>} :
         /\ ~ c.github_ips_only
         /\ c.enforce_secret = ""
         /\ c.hooks_path = HooksPath
         /\ Locals(c, e)

NextDispatch ==
    \/ GatherData
    \/ DetermineBranch
    \/ DetermineName
    \/ SkipPushDelete
    \/ ListHooks
    \/ CheckPermissions
    \/ SavePayload
    \/ LaunchBackground
    \/ SpawnHook
    \/ HookExits
    \/ Communicate
    \/ RemoveTmpfile
    \/ ReturnInfo

\* metadata extraction, hook resolution and dispatch
SpecDispatch == InitDispatch /\ [][NextDispatch]_vars

\* a step of index()
Handler ==
    \/ GatherData
    \/ DetermineBranch
    \/ DetermineName
    \/ SkipPushDelete
    \/ ListHooks
    \/ CheckPermissions
    \/ SavePayload
    \/ LaunchBackground
    \/ SpawnHook
    \/ Communicate
    \/ RemoveTmpfile
    \/ ReturnInfo

\* the thread that serves the request keeps running: index() takes its next
\* step whenever it has one; nothing is assumed of the hook processes
SpecDispatchFair == SpecDispatch /\ WF_vars(Handler)

(***************************************************************************)
(* Where a request stands.                                                 *)
(***************************************************************************)
Pong == Json("msg", "pong")
Skipped == Json("status", "skipped")

\* the origin filter has acted on the request
OriginActed == pc \notin {"method", "config", "origin"} /\ response # Abort(405)

\* the request ended at line 94, or at line 85
OriginRejected ==
    response = Abort(403) /\ log = <<Error("IP not allowed")>>
FetchFailed == response = Raise("RequestException")

OriginPassed == OriginActed /\ ~ OriginRejected /\ ~ FetchFailed

\* the signature check has acted on the request
SecretActed == OriginPassed /\ pc # "secret"

\* the request ended between line 100 and line 115
SecretRejected ==
    \/ response = Abort(403) /\ log = <<Warning("No signature found")>>
    \/ response = Abort(403) /\ log = <<Warning("Invalid digest comparison")>>
    \/ response = Abort(501)
    \/ response = Raise("ValueError")

SecretPassed == SecretActed /\ ~ SecretRejected

\* the source address lies in a range of the fetched list
InSomeRange == \E net \in Range(whitelist) : InNetwork(src_ip, net)

\* the header carries the HMAC-SHA1 of the body under the secret
RightSignature ==
    header_signature =
        <<Chars("sha1"), EqSign>> \o HexDigest(config.enforce_secret, body)

\* the text of a header before its first "=", and the text after it
AlgorithmOf(h) == Split(h, EqSign, 1)[1]
DigestOf(h) ==
    LET parts == Split(h, EqSign, 1)
    IN  IF Len(parts) = 2 THEN parts[2] ELSE <<>>

(***************************************************************************)
(* C1.  A request that is rejected with 405, 403, 501 or 400 has created   *)
(* no temporary file and spawned no hook process when it is rejected.      *)
(***************************************************************************)
C1_RejectedBeforeResources ==
    response.key = "abort" =>
        /\ response.code \in {405, 403, 501, 400}
        /\ created = 0
        /\ tmpfiles = <<>>
        /\ procs = <<>>

\* a request that passed both checks and is rejected for its body
C1_Witness ==
    /\ response = Abort(400)
    /\ config.github_ips_only
    /\ config.enforce_secret # ""
    /\ created = 0

(***************************************************************************)
(* C2.  With a secret, the signature check ends by the header alone:       *)
(* absent -> 403, an algorithm other than sha1 -> 501, sha1 with another   *)
(* digest than the body's HMAC -> 403, sha1 with that digest -> the        *)
(* request goes on.  Without a secret the header is not read and the       *)
(* request goes on.                                                        *)
(***************************************************************************)
C2_SignatureOutcomes ==
    SecretActed =>
        IF config.enforce_secret = ""
        THEN header_signature = NoSignature /\ ~ SecretRejected
        ELSE IF header_signature = NoSignature
        THEN response = Abort(403)
        ELSE IF AlgorithmOf(header_signature) # <<Chars("sha1")>>
        THEN response = Abort(501)
        ELSE IF DigestOf(header_signature)
                    # HexDigest(config.enforce_secret, body)
        THEN response = Abort(403)
        ELSE ~ SecretRejected

(***************************************************************************)
(* C3.  With github_ips_only the request passes the origin filter iff its  *)
(* source address lies in some range of the fetched list, whatever the     *)
(* order of the list, and is rejected with 403 otherwise.  Without         *)
(* github_ips_only the list is not fetched and the request passes.         *)
(***************************************************************************)
C3_OriginFilter ==
    OriginActed =>
        IF config.github_ips_only
        THEN /\ fetched = 1
             /\ \/ FetchFailed
                \/ /\ OriginPassed <=> InSomeRange
                   /\ ~ OriginPassed => response = Abort(403)
        ELSE /\ fetched = 0
             /\ OriginPassed

\* the address lies in the second range of the list only, and passed
C3_Witness ==
    /\ pc = "secret"
    /\ config.github_ips_only
    /\ Len(whitelist) = 2
    /\ ~ InNetwork(src_ip, whitelist[1])
    /\ InNetwork(src_ip, whitelist[2])

(***************************************************************************)
(* C4.  A verified request whose event is "ping", or has no event header,  *)
(* is answered with pong: nothing is parsed, derived, resolved, created    *)
(* or spawned.  Pong never answers a request that fails a check.           *)
(***************************************************************************)
C4_Ping ==
    /\ response = Pong =>
           /\ config.github_ips_only => InSomeRange
           /\ config.enforce_secret # "" => RightSignature
           /\ payload = <<>> /\ branch = None /\ name = None
           /\ scripts = <<>> /\ created = 0 /\ tmpfiles = <<>>
           /\ procs = <<>> /\ log = <<>>
    /\ SecretPassed /\ pc # "ping" /\ event = <<"ping">> => response = Pong

\* pong for a checked request that carries a payload
C4_Witness ==
    /\ response = Pong
    /\ config.github_ips_only
    /\ config.enforce_secret # ""
    /\ body.valid
    /\ body.json # <<>>

(***************************************************************************)
(* Where the metadata of a request stands.                                 *)
(***************************************************************************)
\* the body is a JSON object and line 124 has returned it
Parsed == body.valid /\ event \notin {None, <<"ping">>} /\ pc # "gather"

\* lines 131-153 have run and the request went on
BranchDone == Parsed /\ pc # "branch" /\ response # Raise("IndexError")

\* line 157 has run, or raised
NameActed == BranchDone /\ pc # "name"

\* d.get(k)
Lookup(d, k) == IF k \in DOMAIN d THEN d[k] ELSE None

\* a push that carries neither ref_type nor pull_request, but a ref
PlainPush ==
    /\ event = <<"push">>
    /\ "ref_type" \notin DOMAIN payload
    /\ "pull_request" \notin DOMAIN payload
    /\ "ref" \in DOMAIN payload

\* the positions of the slashes of a string
Slashes(s) == {k \in 1..Len(s) : s[k] = "/"}

(***************************************************************************)
(* C5.  A push whose payload marks the ref as deleted is answered with     *)
(* {"status": "skipped"}; no candidate is resolved, no temporary file is   *)
(* created and no hook is invoked.                                         *)
(***************************************************************************)
C5_PushDeleteSkipped ==
    /\ pc = "done"
    /\ SecretPassed
    /\ event = <<"push">>
    /\ body.valid
    /\ "deleted" \in DOMAIN body.json
    /\ body.json["deleted"]
    => /\ response = Skipped
       /\ scripts = <<>>
       /\ created = 0
       /\ procs = <<>>

(***************************************************************************)
(* C6.  A push whose payload has no `deleted` key does not fail: it goes   *)
(* on to hook resolution and dispatch like a push that is not deleted.     *)
(***************************************************************************)
C6_MissingDeletedIsFalse ==
    /\ pc = "done"
    /\ NameActed
    /\ Info("Metadata") \in Range(log)
    /\ event = <<"push">>
    /\ "deleted" \notin DOMAIN payload
    => /\ response.code = 200
       /\ response # Skipped

(***************************************************************************)
(* C7.  A payload that lacks an expected key never ends the request in     *)
(* metadata extraction: with `ref` absent beside `ref_type` or in a push,  *)
(* or `base` or `base.ref` absent in `pull_request`, the branch is none;   *)
(* with `name` absent in `repository`, the name is none; and the request   *)
(* goes on.                                                                *)
(***************************************************************************)
MissingRef ==
    /\ "ref" \notin DOMAIN payload
    /\ \/ "ref_type" \in DOMAIN payload
       \/ event = <<"push">> /\ "pull_request" \notin DOMAIN payload

MissingBase ==
    /\ "ref_type" \notin DOMAIN payload
    /\ "pull_request" \in DOMAIN payload
    /\ \/ "base" \notin DOMAIN payload["pull_request"]
       \/ "ref" \notin DOMAIN payload["pull_request"]["base"]

MissingName ==
    /\ "repository" \in DOMAIN payload
    /\ "name" \notin DOMAIN payload["repository"]

C7_MissingKeysRecovered ==
    /\ Parsed /\ pc # "branch" /\ (MissingRef \/ MissingBase) =>
           /\ response # Raise("IndexError")
           /\ branch = None
    /\ NameActed /\ MissingName =>
           /\ name = None
           /\ Info("Metadata") \in Range(log)

(***************************************************************************)
(* C8.  The branch is derived by strict precedence: with `ref_type`, it    *)
(* is `ref` when ref_type is "branch" and none otherwise, whatever else    *)
(* the payload holds and whatever the event; else with `pull_request`,     *)
(* it is pull_request.base.ref, whatever head.ref and the event; else for  *)
(* a push it comes from `ref`; else it is none.                            *)
(***************************************************************************)
C8_BranchPrecedence ==
    BranchDone =>
        IF "ref_type" \in DOMAIN payload
        THEN branch = IF payload["ref_type"] = <<"branch">>
                      THEN Lookup(payload, "ref")
                      ELSE None
        ELSE IF "pull_request" \in DOMAIN payload
        THEN branch = IF "base" \in DOMAIN payload["pull_request"]
                      THEN Lookup(payload["pull_request"]["base"], "ref")
                      ELSE None
        ELSE IF event = <<"push">>
        THEN IF "ref" \in DOMAIN payload
             THEN EndsWith(payload["ref"], branch)
             ELSE branch = None
        ELSE branch = None

\* a push with a tag ref_type beside a ref and a pull request: no branch
C8_Witness ==
    /\ BranchDone
    /\ event = <<"push">>
    /\ "ref_type" \in DOMAIN payload
    /\ payload["ref_type"] = <<"tag">>
    /\ "ref" \in DOMAIN payload
    /\ payload["ref"] = FullRef
    /\ "pull_request" \in DOMAIN payload
    /\ "base" \in DOMAIN payload["pull_request"]
    /\ "ref" \in DOMAIN payload["pull_request"]["base"]
    /\ branch = None

(***************************************************************************)
(* C9.  As claimed: for a push with neither `ref_type` nor `pull_request`  *)
(* the branch is the third slash-delimited segment of `ref`; for           *)
(* "refs/heads/foo/bar" it is "foo".                                       *)
(***************************************************************************)
C9_ThirdSegment ==
    BranchDone /\ PlainPush =>
        /\ branch = Split(payload["ref"], "/", -1)[3]
        /\ payload["ref"] = FullRef => branch = <<"foo">>

(***************************************************************************)
(* C9, amended.  For a push with neither `ref_type` nor `pull_request`     *)
(* whose `ref` holds at least two slashes, the branch is all of `ref`      *)
(* after its second slash; for "refs/heads/foo/bar" it is "foo/bar".       *)
(***************************************************************************)
C9_RestAfterSecondSlash ==
    /\ Parsed
    /\ pc # "branch"
    /\ PlainPush
    /\ Cardinality(Slashes(payload["ref"])) >= 2
    => /\ response # Raise("IndexError")
       /\ \E k \in Slashes(payload["ref"]) :
            /\ Cardinality({j \in Slashes(payload["ref"]) : j < k}) = 1
            /\ branch = SubSeq(payload["ref"], k + 1, Len(payload["ref"]))
       /\ payload["ref"] = FullRef => branch = <<"foo", "/", "bar">>

\* the branch of a push of refs/heads/foo/bar has been derived
C9_Witness ==
    /\ BranchDone
    /\ PlainPush
    /\ payload["ref"] = FullRef
    /\ branch = <<"foo", "/", "bar">>

(***************************************************************************)
(* C10.  The candidate list before filtering, in order: the two forms of   *)
(* {event}-{name}-{branch} if name and branch are there, of                *)
(* {event}-{name} if name is there, of {event}, and of all.                *)
(***************************************************************************)
\* a tier of the list: the plain path and its -background form
Tier(on, stem) ==
    IF on
    THEN <<config.hooks_path \o <<"/">> \o stem,
           config.hooks_path \o <<"/">> \o stem \o <<"-", "background">> >>
    ELSE <<>>

Candidates(with_name, with_branch) ==
    Tier(with_name /\ with_branch,
         event \o <<"-">> \o name \o <<"-">> \o branch)
    \o Tier(with_name, event \o <<"-">> \o name)
    \o Tier(TRUE, event)
    \o Tier(TRUE, <<"all">>)

\* C10 as claimed: a name or a branch is there when it is not none
C10_CandidatesByPresence ==
    pc = "permissions" => scripts = Candidates(name # None, branch # None)

\* C10, amended: the candidate list before filtering is, in order, the two
\* forms of {event}-{name}-{branch} if name and branch are not none and not
\* empty, of {event}-{name} if name is not none and not empty, of {event},
\* and of all; without `repository` it is the {event} and the all tier.
C10_CandidatesByNonEmpty ==
    pc = "permissions" =>
        /\ scripts = Candidates(name \notin {None, <<>>},
                                branch \notin {None, <<>>})
        /\ "repository" \notin DOMAIN payload =>
               scripts = Tier(TRUE, event) \o Tier(TRUE, <<"all">>)

\* no repository, but a branch: the list is the {event} and the all tier
C10_Witness ==
    /\ pc = "permissions"
    /\ "repository" \notin DOMAIN payload
    /\ branch \notin {None, <<>>}
    /\ Len(scripts) = 4

(***************************************************************************)
(* Dispatch: what was spawned, and with what.                              *)
(***************************************************************************)
\* no element occurs twice
Distinct(list) ==
    \A a, b \in DOMAIN list : a # b => list[a] # list[b]

\* list is the start of other
IsPrefix(list, other) ==
    Len(list) <= Len(other) /\ list = SubSeq(other, 1, Len(list))

\* the paths of the processes spawned so far, in spawn order
Spawned == [k \in DOMAIN procs |-> procs[k].argv[1]]

\* the request has the shared temporary file made
Dispatching == tmpfile # 0

\* the request is answered
Answered == pc = "done" /\ response # NoResponse

\* the processes that are waited for, and those that are not
Synchronous == {k \in DOMAIN procs : ~ procs[k].background}
Backgrounded == {k \in DOMAIN procs : procs[k].background}

\* C11: the candidate list holds no hook path twice, before and after the
\* permission check, and no hook path is spawned twice within one request
C11_Deduplicated == Distinct(scripts) /\ Distinct(Spawned)

\* C12: once the shared file is made, the spawned paths are a start of the
\* filtered list and each passed the permission check; when the request is
\* answered the spawned paths are the filtered list, whatever the hooks
\* returned or wrote
C12_SpawnedIsFiltered ==
    Dispatching =>
        /\ IsPrefix(Spawned, scripts)
        /\ \A k \in DOMAIN procs : Permitted(files, Spawned[k])
        /\ \A k \in Synchronous :
              k < i => basename(Spawned[k]) \in DOMAIN ran
        /\ Answered => Spawned = scripts

\* C13: no temporary file is made when the filtered list is empty, and the
\* answer is then nop; the shared file is written before the first spawn,
\* exists with the payload as long as the loop runs, and is gone once the
\* request is answered, whatever the hooks returned or wrote
C13_SharedFileLifecycle ==
    /\ (pc \in {"tmpfile", "run", "communicate", "return"}) => scripts # <<>>
    /\ (Answered /\ response = Json("status", "nop")) => created = 0
    /\ procs # <<>> => Dispatching
    /\ (pc \in {"run", "communicate"}) =>
          /\ tmpfile \in DOMAIN tmpfiles
          /\ tmpfiles[tmpfile] = Dumps(payload)
    /\ (Answered /\ Dispatching) => tmpfile \notin DOMAIN tmpfiles

\* C14: the files of the backgrounded processes differ from the shared file
\* and from one another and are never deleted, and once the request is
\* answered they are the only temporary files left
C14_BackgroundFiles ==
    /\ \A k \in Backgrounded :
          /\ procs[k].argv[2] # tmpfile
          /\ procs[k].argv[2] \in DOMAIN tmpfiles
          /\ tmpfiles[procs[k].argv[2]] = Dumps(payload)
          /\ \A j \in Backgrounded : j # k => procs[j].argv[2] # procs[k].argv[2]
    /\ Answered =>
          DOMAIN tmpfiles = {procs[k].argv[2] : k \in Backgrounded}

\* index() waits in communicate() for a hook that is still running
Waiting == pc = "communicate" /\ procs[Len(procs)].state = "running"

\* C15: the request is answered unless index() waits for ever for a
\* synchronous hook, whatever the backgrounded hooks do; an answered request
\* has no synchronous hook running; and a request that waits for ever for a
\* synchronous hook is never answered
C15_ResponseWaitsForSyncOnly ==
    /\ <>Answered \/ <>[]Waiting
    /\ [](Answered => \A k \in Synchronous : procs[k].state = "exited")
    /\ (<>[]Waiting) => [](~ Answered)

\* a request answered after its loop, with a synchronous hook that exited and
\* a backgrounded hook that still runs
C15_Witness ==
    /\ Answered
    /\ response.code = 200
    /\ \E k \in Synchronous : procs[k].state = "exited"
    /\ \E k \in Backgrounded : procs[k].state = "running"

\* str(v) of a name or a branch, written out
NameOrNone(v) == IF v = None THEN <<"None">> ELSE v

\* C16: every process is spawned with the hook path and four arguments: a
\* temporary file that exists and holds the serialized payload, the event,
\* the name or "None", the branch or "None"
C16_HookArguments ==
    [][\A k \in DOMAIN procs' \ DOMAIN procs :
          LET argv == procs'[k].argv
          IN  /\ Len(argv) = 5
              /\ argv[1] = scripts[i]
              /\ argv[2] \in DOMAIN tmpfiles'
              /\ tmpfiles'[argv[2]] = JsonBody(payload)
              /\ argv[3] = event
              /\ argv[4] = NameOrNone(name)
              /\ argv[5] = NameOrNone(branch)]_vars

\* a synchronous and a backgrounded hook spawned without name and branch
C16_Witness ==
    /\ name = None
    /\ branch = None
    /\ \E k \in Synchronous :
          procs[k].argv[2] = tmpfile /\ procs[k].argv[4] = <<"None">>
    /\ \E k \in Backgrounded :
          procs[k].argv[2] # tmpfile /\ procs[k].argv[5] = <<"None">>

\* the request finished its loop and is answered
Completed == Answered /\ Dispatching /\ response.code = 200

\* the entry of the result map for a process that was waited for
ExitData(proc) ==
    [returncode |-> proc.returncode, stdout |-> "out", stderr |-> "out"]

\* C17: a request that finished its loop answers done when
\* return_scripts_info is off, and otherwise the result map: one entry per
\* invoked hook file under its base name, the exit data of a hook that was
\* waited for, the marker alone of a backgrounded one
C17_ResultMap ==
    Completed =>
        IF ~ config.return_scripts_info
        THEN response = Json("status", "done")
        ELSE /\ response = RanOutput(ran)
             /\ DOMAIN ran = {basename(Spawned[k]) : k \in DOMAIN procs}
             /\ Cardinality(DOMAIN ran) = Cardinality(Range(Spawned))
             /\ \A k \in DOMAIN procs :
                   ran[basename(Spawned[k])] =
                       IF procs[k].background
                       THEN [backgrounded |-> "yes"]
                       ELSE ExitData(procs[k])

\* C18: at most one synchronous hook runs, and every synchronous hook spawned
\* before another process has exited
C18_OneSynchronousAtATime ==
    /\ Cardinality({k \in Synchronous : procs[k].state = "running"}) <= 1
    /\ \A k \in DOMAIN procs :
          \A j \in Synchronous : j < k => procs[j].state = "exited"

\* a second synchronous hook runs after the first has exited
C18_Witness ==
    \E j, k \in Synchronous :
        j < k /\ procs[j].state = "exited" /\ procs[k].state = "running"

\* the candidates of lines 171-186 at the odd places (1, the tier as it is) or
\* at the even places (0, the tier with "-background" appended)
CandidatesAt(parity) ==
    LET c == PossibleHooks(config.hooks_path, event, name, branch)
    IN  {c[k] : k \in {j \in DOMAIN c : j % 2 = parity}}

\* C19: a spawned unsuffixed candidate of a tier is waited for, is given the
\* shared file and is recorded with its exit data, and a process that is not
\* waited for is a candidate built by appending "-background"
C19_UnsuffixedSynchronous ==
    \A k \in DOMAIN procs :
        /\ Spawned[k] \in CandidatesAt(1) =>
              /\ ~ procs[k].background
              /\ procs[k].argv[2] = tmpfile
              /\ (pc = "run" /\ k = Len(procs)) =>
                    ran[basename(Spawned[k])] = ExitData(procs[k])
        /\ procs[k].background => Spawned[k] \in CandidatesAt(0)

====
